---- MODULE Spec2Model ----
(***************************************************************************)
(* The explicit ReAct agent loop of 2_DSA_LLM/exercise_b.py: the LangGraph  *)
(* state graph with the two nodes "agent" (run_agent) and "tools"           *)
(* (execute_tools), the conditional edge route_agent_outcome, the parser of *)
(* the LLM's text inside run_agent, and the three tools of the registry.    *)
(*                                                                          *)
(* Text is a sequence of tokens.  A token is one of the marker literals of  *)
(* the regular expressions ("Action:", "Action Input:", "Final Answer:",    *)
(* "SQL:"), one whitespace character, one quote character, or a stretch of   *)
(* text that holds no marker and no quote and has no whitespace at its      *)
(* ends.  The regular expressions and str.strip are computed over these     *)
(* tokens the way Python computes them over characters.                     *)
(***************************************************************************)
EXTENDS Integers, Sequences, FiniteSets, TLC

VARIABLES
    pc,                 \* node the graph runs next: "agent", "tools", "END", "failed", "exit"
    run,                \* which app.invoke of __main__ is running (1 or 2)
    input,              \* AgentState.input
    chat_history,       \* AgentState.chat_history
    intermediate_steps, \* AgentState.intermediate_steps
    agent_outcome,      \* AgentState.agent_outcome
    db_result,          \* content of db_result.txt in the database's directory
    agent_output,       \* __main__: the output printed for each finished run
    llm_shape,          \* the parts the LLM's last response was written from
    n_actions,          \* history: Action outcomes produced in this run
    n_invocations,      \* history: tool_executor.invoke calls in this run
    tool_error,         \* history: what the last tool_executor.invoke raised, or "none"
    llm_error,          \* history: what the last llm.invoke raised, or "none"
    agent_scratchpad,   \* history: the scratchpad of the last prompt of this run
    script,             \* the script that runs
    spc,                \* where the script is: "create", "run", "direct" or "graph"
    builds,             \* which agent builders raise nothing in this environment
    attempts,           \* history: the builders create_agent_with_fallback called, in order
    agent_executor,     \* the script's agent_executor
    tcall,              \* the last call of a tool: its name, its input, what it met
    tresult,            \* what that call returned or raised
    env,                \* the configuration the environment provides
    exit_status,        \* how the process ended: its exit code (-1 while it runs) and what it printed
    query_result        \* the file filepath/query_result.txt of exercise_2.py

scriptVars == <<script, spc, builds, attempts, agent_executor, tcall, tresult,
                env, exit_status, query_result>>

vars == <<pc, run, input, chat_history, intermediate_steps, agent_outcome,
          db_result, agent_output, llm_shape, n_actions, n_invocations, tool_error,
          llm_error, agent_scratchpad, script, spc, builds, attempts, agent_executor, tcall, tresult,
          env, exit_status, query_result>>

----------------------------------------------------------------------------
(* Bounds *)

\* tool executions after which the modelled LLM stops answering with an Action
MaxSteps == 2
\* longest run of blanks the modelled LLM puts around the parts of a response
MaxPad == 1
\* the number of consecutive actions in the runs that reach the limit of the graph
MaxRounds == 13

----------------------------------------------------------------------------
(* Text *)

NL == "\n"
SP == " "
DQ == "\""
SQ == "'"

\* Python's str.lower on the tokens that hold letters the parsers look at
Lower(t) ==
    CASE t = "Action:" -> "action:"
      [] t = "Action Input:" -> "action input:"
      [] t = "Final Answer:" -> "final answer:"
      [] t = "SQL:" -> "sql:"
      [] OTHER -> t

\* Python's str.isspace for one character; also the regex class \s
IsSpace(t) == t \in {SP, NL}

Repeat(t, n) == [i \in 1..n |-> t]

Slice(s, a, b) == IF a > b THEN <<>> ELSE SubSeq(s, a, b)

\* number of tokens of s, from index p on, that are all in the set chars
RunFrom(s, p, chars) ==
    CHOOSE k \in 0..(Len(s) + 1 - p) :
        /\ \A i \in p..(p + k - 1) : s[i] \in chars
        /\ (p + k > Len(s) \/ s[p + k] \notin chars)

\* number of tokens of s, back from its end, that are all in the set chars
RunBack(s, chars) ==
    CHOOSE k \in 0..Len(s) :
        /\ \A i \in (Len(s) - k + 1)..Len(s) : s[i] \in chars
        /\ (k = Len(s) \/ s[Len(s) - k] \notin chars)

\* str.strip(chars)
StripChars(s, chars) ==
    LET a == RunFrom(s, 1, chars)
    IN  IF a = Len(s) THEN <<>>
        ELSE Slice(s, a + 1, Len(s) - RunBack(s, chars))

\* str.strip()
Strip(s) == StripChars(s, {SP, NL})

\* x in s, for one token
Contains(s, t) == \E i \in 1..Len(s) : s[i] = t

----------------------------------------------------------------------------
(* run_agent: the parser of the LLM's response *)

\* a mutant of LitEq: the patterns compiled with re.IGNORECASE
LitEqIgnoreCase(lit, t) == Lower(lit) = Lower(t)

\* a literal of a pattern compiled without re.IGNORECASE matches one token
LitEq(lit, t) == lit = t

\* the literal "\nAction Input:" matches at index j of s
ActionInputAt(s, j) ==
    /\ j + 1 <= Len(s)
    /\ s[j] = NL
    /\ LitEq("Action Input:", s[j + 1])

\* re.search(r"Action:\s*(.*?)\nAction Input:\s*(.*)", s, re.DOTALL)
\* The search takes the leftmost "Action:" from which the pattern can match;
\* \s* is greedy and gives back blanks only when nothing else matches; (.*?)
\* is lazy and ends at the first "\nAction Input:" after it; (.*) with DOTALL
\* runs to the end of the text.
ActionSearch(s) ==
    LET starts == {i \in 1..Len(s) :
                     /\ LitEq("Action:", s[i])
                     /\ \E j \in (i + 1)..Len(s) : ActionInputAt(s, j)}
    IN  IF starts = {} THEN [matched |-> FALSE]
        ELSE
          LET i  == CHOOSE x \in starts : \A y \in starts : x <= y
              p  == i + 1
              ks == {k \in 0..RunFrom(s, p, {SP, NL}) :
                       \E j \in (p + k)..Len(s) : ActionInputAt(s, j)}
              k  == CHOOSE x \in ks : \A y \in ks : x >= y
              js == {j \in (p + k)..Len(s) : ActionInputAt(s, j)}
              j  == CHOOSE x \in js : \A y \in js : x <= y
              q  == j + 2
              k2 == RunFrom(s, q, {SP, NL})
          IN  [matched |-> TRUE,
               group1  |-> Slice(s, p + k, j - 1),
               group2  |-> Slice(s, q + k2, Len(s))]

\* re.search(r"Final Answer:\s*(.*)", s, re.DOTALL)
FinalAnswerSearch(s) ==
    LET starts == {i \in 1..Len(s) : LitEq("Final Answer:", s[i])}
    IN  IF starts = {} THEN [matched |-> FALSE]
        ELSE
          LET i == CHOOSE x \in starts : \A y \in starts : x <= y
              k == RunFrom(s, i + 1, {SP, NL})
          IN  [matched |-> TRUE, group1 |-> Slice(s, i + 1 + k, Len(s))]

AgentAction(tool, tool_input, log) ==
    [type |-> "Action", tool |-> tool, tool_input |-> tool_input, log |-> log]

AgentFinish(output, log) ==
    [type |-> "Finish", output |-> output, log |-> log]

None == [type |-> "None"]

\* a mutant of FallbackFinish: malformed output is not turned into an outcome
FallbackNone(response_content) == None

\* a mutant of FallbackFinish: the raw response is trimmed like a final answer
FallbackStripped(response_content) ==
    AgentFinish(Strip(response_content), response_content)

\* the else branch of the parser: the whole response is the final answer
FallbackFinish(response_content) ==
    AgentFinish(response_content, response_content)

\* a mutant of FinalAnswerOutput: the captured text is kept untrimmed
FinalAnswerUntrimmed(group1) == group1

\* final_answer = final_answer_match.group(1).strip()
FinalAnswerOutput(group1) == Strip(group1)

\* the parser of run_agent: the outcome for one response text
\* a mutant of ParseOutcome: the final answer is looked for first
ParseOutcomeFinalFirst(response_content) ==
    LET action_match       == ActionSearch(response_content)
        final_answer_match == FinalAnswerSearch(response_content)
    IN  IF final_answer_match.matched
        THEN AgentFinish(FinalAnswerOutput(final_answer_match.group1),
                         response_content)
        ELSE IF action_match.matched
        THEN AgentAction(Strip(action_match.group1),
                         StripChars(Strip(action_match.group2), {DQ}),
                         response_content)
        ELSE FallbackFinish(response_content)

\* the parsing of run_agent: an action is looked for first
ParseOutcome(response_content) ==
    LET action_match       == ActionSearch(response_content)
        final_answer_match == FinalAnswerSearch(response_content)
    IN  IF action_match.matched
        THEN AgentAction(Strip(action_match.group1),
                         StripChars(Strip(action_match.group2), {DQ}),
                         response_content)
        ELSE IF final_answer_match.matched
        THEN AgentFinish(FinalAnswerOutput(final_answer_match.group1),
                         response_content)
        ELSE FallbackFinish(response_content)

----------------------------------------------------------------------------
(* The LLM: the text llm.invoke can return *)

\* the text of a response written from its parts: an optional
\* Action / Action Input block and an optional Final Answer block
Render(sh) ==
    LET P == Repeat(SP, sh.pad)
        Q == IF sh.quote = "" THEN <<>> ELSE <<sh.quote>>
        actionPart ==
            IF sh.act = "" THEN <<>>
            ELSE <<sh.act>> \o P \o sh.tool \o P \o <<sh.sep, sh.aim>> \o P
                 \o Q \o sh.inp \o Q \o P \o sh.post
        finalPart ==
            IF sh.fin = "" THEN <<>>
            ELSE <<sh.fin>> \o P \o sh.fintext \o P
        between == IF sh.act # "" /\ sh.fin # "" THEN <<NL>> ELSE <<>>
    IN  sh.pre \o (IF sh.finFirst
                   THEN finalPart \o between \o actionPart
                   ELSE actionPart \o between \o finalPart)

\* the text that follows the Final Answer marker of a response, to its end
AfterFinal(sh) ==
    LET r == Render(sh)
        i == CHOOSE x \in 1..Len(r) :
                 r[x] = sh.fin /\ \A y \in 1..(x - 1) : r[y] # sh.fin
    IN  Slice(r, i + 1, Len(r))

CountUsers == "SELECT COUNT(*) FROM users;"
BadSelect == "SELECT * FROM missing;"

NoAction == [act |-> "", tool |-> <<>>, sep |-> NL, aim |-> "Action Input:",
             quote |-> "", inp |-> <<>>, post |-> <<>>]

NoFinal == [fin |-> "", fintext |-> <<>>, finFirst |-> FALSE]

\* the responses the parser is checked on
ParserShapes ==
    LET actions ==
            {NoAction} \cup
            [act : {"Action:", "action:"},
             tool : {<<"ReadFile">>, <<"Calculator">>},
             sep : {NL, SP},
             aim : {"Action Input:", "action input:"},
             quote : {"", DQ, SQ},
             inp : {<<"db_result.txt">>, <<"name=", DQ, "bob", DQ>>},
             post : {<<>>, <<NL, "Observation:", SP, "ok">>}]
        finals ==
            {NoFinal} \cup
            [fin : {"Final Answer:", "final answer:"},
             fintext : {<<"4">>, <<"4", NL, "users">>},
             finFirst : BOOLEAN]
    IN  {[pre |-> pre, pad |-> pad,
          act |-> a.act, tool |-> a.tool, sep |-> a.sep, aim |-> a.aim,
          quote |-> a.quote, inp |-> a.inp, post |-> a.post,
          fin |-> f.fin, fintext |-> f.fintext, finFirst |-> f.finFirst] :
         pre \in {<<>>, <<SP>>, <<"Thought:", SP, "count", NL>>},
         pad \in 0..MaxPad, a \in actions, f \in finals}

ActionShape(tool, inp) ==
    [pre |-> <<"Thought:", SP, "next", NL>>, pad |-> 1,
     act |-> "Action:", tool |-> <<tool>>, sep |-> NL, aim |-> "Action Input:",
     quote |-> "", inp |-> inp, post |-> <<>>,
     fin |-> "", fintext |-> <<>>, finFirst |-> FALSE]

FinishShape(fin, text) ==
    [pre |-> <<>>, pad |-> 1,
     act |-> "", tool |-> <<>>, sep |-> NL, aim |-> "Action Input:",
     quote |-> "", inp |-> <<>>, post |-> <<>>,
     fin |-> fin, fintext |-> text, finFirst |-> FALSE]

\* the responses the LLM gives in the runs of the loop
LoopShapes ==
    {ActionShape("SQL_Query_Executor", <<CountUsers>>),
     ActionShape("WriteQueryResultToFile", <<"SQL:", SP, CountUsers>>),
     ActionShape("WriteQueryResultToFile", <<"SQL:", SP, BadSelect>>),
     ActionShape("ReadFile", <<"db_result.txt">>),
     ActionShape("Calculator", <<"1+1">>),
     FinishShape("Final Answer:", <<"4">>),
     FinishShape("", <<>>)}

----------------------------------------------------------------------------
(* The tools of the registry *)

ToolNames == {<<"SQL_Query_Executor">>, <<"WriteQueryResultToFile">>, <<"ReadFile">>}

\* the directory of the database file, and the file the write tool writes
BaseDir == "/data/"
FileName == "db_result.txt"

NoFile == [exists |-> FALSE, content |-> <<>>]
FileOf(content) == [exists |-> TRUE, content |-> content]

\* the token begins with the letters "select", in any letter case
StartsWithSelect(t) == t \in {CountUsers, BadSelect}

\* a statement that is no SELECT
DeleteUsers == "DELETE FROM users WHERE id = 0;"

\* db.run(query): what the SQL engine answers for one statement.  The users
\* table holds 4 rows; the DELETE matches none of them; any other statement
\* of the model is rejected.
DbRun(query) ==
    IF query = <<CountUsers>>
    THEN {[raised |-> FALSE, isList |-> TRUE, rows |-> << <<"4">> >>],
          [raised |-> FALSE, isList |-> FALSE, text |-> <<"[(", "4", ",)]">>]}
    ELSE IF query = <<DeleteUsers>>
    THEN {[raised |-> FALSE, isList |-> FALSE, text |-> <<>>]}
    ELSE {[raised |-> TRUE, reason |-> "OperationalError"]}

\* the Markdown code fence: three backticks, with and without the word sql
FenceSql == "<fence>sql"
Fence == "<fence>"

\* ", ".join(str(row) for row in result)
RECURSIVE JoinRows(_)
JoinRows(rows) ==
    IF rows = <<>> THEN <<>>
    ELSE IF Len(rows) = 1 THEN <<"(">> \o rows[1] \o <<")">>
    ELSE <<"(">> \o rows[1] \o <<")", ",", SP>> \o JoinRows(Tail(rows))

\* re.sub(r"<fence>sql|<fence>", "", query).strip()
CleanQuery(query) == Strip(SelectSeq(query, LAMBDA t : t \notin {FenceSql, Fence}))

\* the body of clean_and_run_sql for the cleaned query q, when db.run(q)
\* answers r
SqlAnswer(q, r) ==
    IF r.raised
    THEN <<"SQL execution error:", SP, r.reason, SP, "for query:", SP>> \o q
    ELSE IF q # <<>> /\ StartsWithSelect(q[1])
    THEN IF r.isList
         THEN IF r.rows # <<>>
              THEN IF Len(r.rows) = 1 /\ Len(r.rows[1]) = 1
                   THEN r.rows[1]
                   ELSE JoinRows(r.rows)
              ELSE <<"No results found for the query.">>
         ELSE r.text
    ELSE <<"Query executed successfully. Result:", SP>>
         \o (IF r.isList THEN JoinRows(r.rows) ELSE r.text)

\* clean_and_run_sql(query): the strings it can return
clean_and_run_sql(query) ==
    {SqlAnswer(CleanQuery(query), r) : r \in DbRun(CleanQuery(query))}

\* re.search(r"SQL:\s*(SELECT.*)", s, re.IGNORECASE | re.DOTALL)
SqlSearch(s) ==
    LET starts == {i \in 1..Len(s) :
                     /\ Lower(s[i]) = "sql:"
                     /\ LET k == RunFrom(s, i + 1, {SP, NL})
                        IN  i + 1 + k <= Len(s) /\ StartsWithSelect(s[i + 1 + k])}
    IN  IF starts = {} THEN [matched |-> FALSE]
        ELSE
          LET i == CHOOSE x \in starts : \A y \in starts : x <= y
              k == RunFrom(s, i + 1, {SP, NL})
          IN  [matched |-> TRUE, group1 |-> Slice(s, i + 1 + k, Len(s))]

\* a mutant of WrittenFile: the file is opened in append mode
AppendedFile(file, text) == FileOf(file.content \o text)

\* with open(file_path, "w") as f: f.write(text)
WrittenFile(file, text) == FileOf(text)

\* what a failed write leaves: the file as it was when the directory or the
\* file could not be opened, an empty file when the write itself failed
FailedWrite(file) == {file, FileOf(<<>>)}

\* a mutant of WriteQueryResultToFile: the file is opened for writing before
\* the input is tested
WriteQueryResultToFileOpenFirst(input_string, file) ==
    LET match == SqlSearch(input_string)
    IN  IF ~match.matched
        THEN {[raised |-> FALSE,
               value |-> <<"Error: Input to WriteQueryResultToFile must start with 'SQL:' followed by the query.">>,
               file |-> FileOf(<<>>)]}
        ELSE
          LET results == clean_and_run_sql(Strip(match.group1))
          IN  {[raised |-> FALSE,
                value |-> <<"Query result successfully written to", SP, BaseDir, FileName,
                            ".", SP, "Result:", SP>> \o result,
                file |-> WrittenFile(file, <<"The number of users is:", SP>> \o result)] :
               result \in results}
              \cup
              {[raised |-> FALSE,
                value |-> <<"Failed to write query result:", SP, "OSError">>,
                file |-> f] : f \in FailedWrite(file)}

\* WriteQueryResultToFile(input_string): the observations it can return,
\* each with the file it leaves
WriteQueryResultToFile(input_string, file) ==
    LET match == SqlSearch(input_string)
    IN  IF ~match.matched
        THEN {[raised |-> FALSE,
               value |-> <<"Error: Input to WriteQueryResultToFile must start with 'SQL:' followed by the query.">>,
               file |-> file]}
        ELSE
          LET results == clean_and_run_sql(Strip(match.group1))
          IN  {[raised |-> FALSE,
                value |-> <<"Query result successfully written to", SP, BaseDir, FileName,
                            ".", SP, "Result:", SP>> \o result,
                file |-> WrittenFile(file, <<"The number of users is:", SP>> \o result)] :
               result \in results}
              \cup
              {[raised |-> FALSE,
                value |-> <<"Failed to write query result:", SP, "OSError">>,
                file |-> f] : f \in FailedWrite(file)}

\* a mutant of ReadFile: the file is opened without the test that it exists
ReadFileUnchecked(file_name, file) ==
    IF ~(file_name = <<FileName>> /\ file.exists)
    THEN {[raised |-> FALSE,
           value |-> <<"Error reading file:", SP, "FileNotFoundError">>,
           file |-> file]}
    ELSE {[raised |-> FALSE, value |-> file.content, file |-> file],
          [raised |-> FALSE,
           value |-> <<"Error reading file:", SP, "OSError">>,
           file |-> file]}

\* ReadFile(file_name): the one file of the directory is db_result.txt; a
\* file that exists is read, or the read fails
ReadFile(file_name, file) ==
    IF ~(file_name = <<FileName>> /\ file.exists)
    THEN {[raised |-> FALSE,
           value |-> <<"Error: The file", SP, SQ>> \o file_name
                     \o <<SQ, SP, "does not exist at", SP, SQ, BaseDir>> \o file_name
                     \o <<SQ, ".">>,
           file |-> file]}
    ELSE {[raised |-> FALSE, value |-> file.content, file |-> file],
          [raised |-> FALSE,
           value |-> <<"Error reading file:", SP, "OSError">>,
           file |-> file]}

\* tool_executor.invoke(tool_invocation): the registry looks the tool up by
\* name and calls it; the call returns a string or raises
tool_executor_invoke(tool, tool_input, file) ==
    IF tool \notin ToolNames
    THEN {[raised |-> FALSE,
           value |-> tool \o <<SP, "is not a valid tool, try one of", SP,
                               "[SQL_Query_Executor, WriteQueryResultToFile, ReadFile]", ".">>,
           file |-> file],
          [raised |-> TRUE, reason |-> "KeyError", file |-> file]}
    ELSE (CASE tool = <<"SQL_Query_Executor">> ->
                 {[raised |-> FALSE, value |-> v, file |-> file] :
                  v \in clean_and_run_sql(tool_input)}
            [] tool = <<"WriteQueryResultToFile">> ->
                 WriteQueryResultToFile(tool_input, file)
            [] tool = <<"ReadFile">> ->
                 ReadFile(tool_input, file))
         \cup {[raised |-> TRUE, reason |-> "ToolException", file |-> file]}

----------------------------------------------------------------------------
(* The graph *)

\* a mutant of StepsReducer: the key has no reducer, a new value replaces the old
StepsReplace(old, new) == new

\* a mutant of StepsReducer: the new entries are put in front of the old ones
StepsPrepend(old, new) == new \o old

\* Annotated[List[Tuple[AgentAction, str]], operator.add]
StepsReducer(old, new) == old \o new

\* a mutant of route_agent_outcome: an unregistered tool name ends the run
route_unknown_tool_to_end(outcome) ==
    IF outcome.type = "Finish" THEN "END"
    ELSE IF outcome.tool \notin ToolNames THEN "END"
    ELSE "tools"

\* the conditional edge after the agent node
route_agent_outcome(outcome) ==
    IF outcome.type = "Finish" THEN "END" ELSE "tools"

\* a mutant of ToolsEdge: workflow.add_edge("tools", END)
ToolsEdgeToEnd == "END"

\* workflow.add_edge("tools", "agent")
ToolsEdge == "agent"

\* a mutant of CatchToolError: no try/except around tool_executor.invoke
PropagateToolError(agent_action, r) == r

\* the try/except of execute_tools: what was raised becomes the observation
CatchToolError(agent_action, r) ==
    IF r.raised
    THEN [raised |-> FALSE,
          value  |-> <<"Tool Execution Error for tool", SP, SQ>> \o agent_action.tool
                     \o <<SQ, SP, "with input", SP, SQ>> \o agent_action.tool_input
                     \o <<SQ, ":", SP, r.reason>>,
          file   |-> r.file]
    ELSE r

\* app.invoke(initial_state) passes no config: the graph runs with
\* LangGraph's default recursion_limit, the number of supersteps of one run
RecursionLimit == 25

\* a mutant of NextNode: the graph runs without a limit of supersteps
NextNodeUnlimited(node, superstep) == node

\* the node that runs in the given superstep, as the edge chose it; when the
\* superstep is beyond the limit the graph raises GraphRecursionError, and
\* the exception leaves app.invoke
NextNode(node, superstep) ==
    IF node = "END" \/ superstep <= RecursionLimit THEN node ELSE "failed"

Task1 == "Find out how many users are in the database and write the result to a file."
Task2 == "Read the file 'db_result.txt'"

EmptyShape == FinishShape("", <<>>)

NoCall == [tool |-> "none"]
NoResult == [raised |-> FALSE, value |-> <<>>]

\* exercise_b.py after its module initialisation: the graph is compiled and
\* __main__ is about to invoke it on the first task
Init ==
    /\ pc = "agent"
    /\ run = 1
    /\ input = Task1
    /\ chat_history = <<>>
    /\ intermediate_steps = <<>>
    /\ agent_outcome = None
    /\ db_result \in {NoFile, FileOf(<<"old">>)}
    /\ agent_output = <<>>
    /\ llm_shape = EmptyShape
    /\ n_actions = 0
    /\ n_invocations = 0
    /\ tool_error = "none"
    /\ llm_error = "none"
    /\ agent_scratchpad = <<>>
    /\ script = "exercise_b"
    /\ spc = "graph"
    /\ builds = {}
    /\ attempts = <<>>
    /\ agent_executor = "app"
    /\ tcall = NoCall
    /\ tresult = NoResult
    /\ env = {"llm", "DATABASE"}
    /\ exit_status = [code |-> -1, report |-> "none"]
    /\ query_result = NoFile

\* the value of one key of the state after a node returned its update: a key
\* the update does not name keeps its value, intermediate_steps is reduced
Merged(key, old, update) ==
    IF key \in DOMAIN update
    THEN IF key = "intermediate_steps" THEN StepsReducer(old, update[key])
         ELSE update[key]
    ELSE old

\* the graph applies the dictionary a node returned to the AgentState
ApplyUpdate(update) ==
    /\ input' = Merged("input", input, update)
    /\ chat_history' = Merged("chat_history", chat_history, update)
    /\ intermediate_steps' = Merged("intermediate_steps", intermediate_steps, update)
    /\ agent_outcome' = Merged("agent_outcome", agent_outcome, update)

\* return {"agent_outcome": ...} of run_agent
run_agent_update(outcome) == [agent_outcome |-> outcome]

\* a mutant of execute_tools_update: the executed action is cleared
execute_tools_update_clearing(agent_action, observation) ==
    [intermediate_steps |-> << <<agent_action, observation>> >>, agent_outcome |-> None]

\* return {"intermediate_steps": [(agent_action, observation)]} of execute_tools
execute_tools_update(agent_action, observation) ==
    [intermediate_steps |-> << <<agent_action, observation>> >>]

\* f"Thought: {action.log.strip()}\nObservation: {observation.strip()}"
FormatStep(action, observation) ==
    <<"Thought:", SP>> \o Strip(action.log) \o <<NL, "Observation:", SP>>
    \o Strip(observation)

\* "\n".join(lines)
RECURSIVE JoinLines(_)
JoinLines(lines) ==
    IF lines = <<>> THEN <<>>
    ELSE IF Len(lines) = 1 THEN lines[1]
    ELSE lines[1] \o <<NL>> \o JoinLines(Tail(lines))

\* a mutant of FormatScratchpad: the latest step is put first
FormatScratchpadLatestFirst(steps) ==
    JoinLines([i \in 1..Len(steps) |->
                 FormatStep(steps[Len(steps) + 1 - i][1], steps[Len(steps) + 1 - i][2])])

\* the scratchpad run_agent formats from intermediate_steps
FormatScratchpad(steps) ==
    JoinLines([i \in 1..Len(steps) |-> FormatStep(steps[i][1], steps[i][2])])

\* a mutant of LlmInvoke: what the call raises is answered as the response text
LlmInvokeCaught(r) ==
    IF r.raised THEN [raised |-> FALSE, content |-> <<"LLM error:", SP, r.reason>>]
    ELSE r

\* llm_response = llm.invoke(full_prompt): nothing in run_agent catches what it raises
LlmInvoke(r) == r

\* a mutant of FinalOutput: the caller is given the raw text of the last response
FinalOutputLog(outcome) == outcome.log

\* final_state["agent_outcome"].return_values["output"]
FinalOutput(outcome) == outcome.output

\* the agent node followed by its conditional edge, for a response of the LLM
run_agent_upto(shapes, rounds) ==
    /\ pc = "agent"
    /\ \E sh \in shapes :
          LET llm_response == LlmInvoke([raised |-> FALSE, content |-> Render(sh)])
              response_content == llm_response.content
              outcome == ParseOutcome(response_content)
          IN  /\ outcome.type = "Action" => n_actions < rounds
              /\ llm_shape' = sh
              /\ ApplyUpdate(run_agent_update(outcome))
              /\ n_actions' = n_actions + (IF outcome.type = "Action" THEN 1 ELSE 0)
              /\ pc' = NextNode(route_agent_outcome(agent_outcome'), 2 * n_invocations + 2)
    /\ llm_error' = "none"
    /\ agent_scratchpad' = FormatScratchpad(intermediate_steps)
    /\ UNCHANGED <<run, db_result, agent_output, n_invocations, tool_error>>
    /\ UNCHANGED scriptVars

\* the agent node in the runs of at most MaxSteps actions
run_agent(shapes) == run_agent_upto(shapes, MaxSteps)

\* the agent node when llm.invoke raises: the exception leaves app.invoke
run_agent_llm_error ==
    /\ pc = "agent"
    /\ \E reason \in {"APIConnectionError"} :
          LET llm_response == LlmInvoke([raised |-> TRUE, reason |-> reason])
          IN  /\ llm_error' = reason
              /\ IF llm_response.raised
                 THEN /\ pc' = "failed"
                      /\ UNCHANGED <<input, chat_history, intermediate_steps, agent_outcome>>
                 ELSE /\ ApplyUpdate(run_agent_update(ParseOutcome(llm_response.content)))
                      /\ pc' = route_agent_outcome(agent_outcome')
    /\ agent_scratchpad' = FormatScratchpad(intermediate_steps)
    /\ UNCHANGED <<run, db_result, agent_output, llm_shape, n_actions, n_invocations,
                   tool_error>>
    /\ UNCHANGED scriptVars

\* the tools node followed by its edge
execute_tools ==
    /\ pc = "tools"
    /\ LET agent_action == agent_outcome
       IN  \E r \in tool_executor_invoke(agent_action.tool, agent_action.tool_input, db_result) :
              LET res == CatchToolError(agent_action, r)
              IN  /\ tool_error' = (IF r.raised THEN r.reason ELSE "none")
                  /\ db_result' = res.file
                  /\ IF res.raised
                     THEN /\ pc' = "failed"
                          /\ UNCHANGED <<input, chat_history, intermediate_steps, agent_outcome>>
                     ELSE /\ pc' = NextNode(ToolsEdge, 2 * n_invocations + 3)
                          /\ ApplyUpdate(execute_tools_update(agent_action, res.value))
    /\ n_invocations' = n_invocations + 1
    /\ UNCHANGED <<run, agent_output, llm_shape, n_actions, llm_error, agent_scratchpad>>
    /\ UNCHANGED scriptVars

\* __main__ after the first app.invoke returned: print the output and
\* invoke the graph again on the second task
main_second_invoke ==
    /\ pc = "END"
    /\ run = 1
    /\ IF agent_outcome.type = "Finish"
       THEN /\ agent_output' = Append(agent_output, FinalOutput(agent_outcome))
            /\ run' = 2
            /\ input' = Task2
            /\ chat_history' = <<Task2>>
            /\ intermediate_steps' = <<>>
            /\ agent_outcome' = None
            /\ n_actions' = 0
            /\ n_invocations' = 0
            /\ agent_scratchpad' = <<>>
            /\ pc' = "agent"
       ELSE /\ pc' = "failed"
            /\ UNCHANGED <<agent_output, run, input, chat_history, intermediate_steps,
                           agent_outcome, n_actions, n_invocations, agent_scratchpad>>
    /\ UNCHANGED <<db_result, llm_shape, tool_error, llm_error>>
    /\ UNCHANGED scriptVars

\* __main__ after the second app.invoke returned: print the output
main_finish ==
    /\ pc = "END"
    /\ run = 2
    /\ IF agent_outcome.type = "Finish"
       THEN /\ agent_output' = Append(agent_output, FinalOutput(agent_outcome))
            /\ pc' = "exit"
       ELSE /\ pc' = "failed"
            /\ UNCHANGED agent_output
    /\ UNCHANGED <<run, input, chat_history, intermediate_steps, agent_outcome,
                   db_result, llm_shape, n_actions, n_invocations, tool_error, llm_error,
                   agent_scratchpad>>
    /\ UNCHANGED scriptVars

\* __main__'s except block: the direct query, written to db_result.txt
main_except ==
    /\ pc = "failed"
    /\ \E direct_db_result \in clean_and_run_sql(<<CountUsers>>) :
          db_result' \in {FileOf(<<"This is the direct fallback result:", SP>> \o direct_db_result),
                          db_result}
    /\ pc' = "exit"
    /\ UNCHANGED <<run, input, chat_history, intermediate_steps, agent_outcome,
                   agent_output, llm_shape, n_actions, n_invocations, tool_error, llm_error,
                   agent_scratchpad>>
    /\ UNCHANGED scriptVars

Next ==
    \/ run_agent(LoopShapes)
    \/ run_agent_llm_error
    \/ execute_tools
    \/ main_second_invoke
    \/ main_finish
    \/ main_except

Spec == Init /\ [][Next]_vars

\* the first decision step of a run, on every response the parser is checked on
ParserNext == run_agent(ParserShapes)

ParserSpec == Init /\ [][ParserNext]_vars

\* the responses of an LLM that keeps asking for a tool: an action on a tool
\* that is not registered, and a final answer
LimitShapes ==
    {ActionShape("Calculator", <<"1+1">>),
     FinishShape("Final Answer:", <<"4">>)}

\* one run of the graph with up to MaxRounds consecutive actions
LimitNext ==
    \/ run_agent_upto(LimitShapes, MaxRounds)
    \/ execute_tools

LimitSpec == Init /\ [][LimitNext]_vars

----------------------------------------------------------------------------
(* The other scripts of 2_DSA_LLM: how they build their agent, and the tools *)
(* they register.  A tool takes its input and what the world answers (the   *)
(* database, the file system, the HTTP server) and returns a string or      *)
(* raises; tcall records the call and tresult what came out of it.          *)

Scripts ==
    {"1_weather_agent", "2_sql_agent", "3_github_agent", "exercise_2", "exercise_3",
     "exercise_b"}

\* the scripts that build their agent with create_agent_with_fallback
FallbackScripts == {"1_weather_agent", "2_sql_agent", "3_github_agent"}

\* the three builders, in the order of the three try blocks
Builders == <<"tool_calling", "react", "legacy">>

NotStarted == [attempts |-> <<>>, executor |-> "None", returned |-> FALSE]

\* a mutant of TryBuilder: the executor is kept but the function goes on to
\* the next try block
TryBuilderNoReturn(name, ok, st) ==
    IF st.returned THEN st
    ELSE [attempts |-> Append(st.attempts, name),
          executor |-> IF name \in ok THEN name ELSE st.executor,
          returned |-> FALSE]

\* one try block of create_agent_with_fallback: build the agent and return
\* its executor; when the builder raises, print the failure and go on
TryBuilder(name, ok, st) ==
    IF st.returned THEN st
    ELSE IF name \in ok
    THEN [attempts |-> Append(st.attempts, name), executor |-> name, returned |-> TRUE]
    ELSE [attempts |-> Append(st.attempts, name), executor |-> "None", returned |-> FALSE]

\* create_agent_with_fallback(), where ok is the set of builders that do not
\* raise: the builders it tried and the executor it returns ("None" for None)
create_agent_with_fallback(ok) ==
    TryBuilder(Builders[3], ok,
        TryBuilder(Builders[2], ok,
            TryBuilder(Builders[1], ok, NotStarted)))

\* clean_and_run_sql of exercise_2.py, when db.run answers r: the result of
\* db.run is returned as it is, and what db.run raises is raised
exercise_2_clean_and_run_sql(r) ==
    IF r.raised
    THEN [raised |-> TRUE, reason |-> r.reason]
    ELSE [raised |-> FALSE, type |-> IF r.isList THEN "list" ELSE "str",
          value |-> IF r.isList THEN r.rows ELSE r.text]

\* the queries, the inputs of the write tool and the file names of the calls
Queries ==
    {<<CountUsers>>, <<BadSelect>>, <<DeleteUsers>>,
     <<FenceSql, NL, CountUsers, NL, Fence>>}
WriteInputs ==
    {<<"SQL:", SP, CountUsers>>, <<"SQL:", SP, BadSelect>>,
     <<"SQL:", SP, DeleteUsers>>, <<CountUsers>>}
FileNames == {<<FileName>>, <<"report.txt">>}

\* the configuration a script reads: the LLM of model.py (GROQ_API_KEY), the
\* path of the SQLite database, the URL of the PostgreSQL database, the
\* token of GitHub
Uses(s) ==
    CASE s = "1_weather_agent" -> {"llm"}
      [] s = "2_sql_agent" -> {"llm", "DATABASE"}
      [] s = "3_github_agent" -> {"llm", "GITHUB_TOKEN"}
      [] s = "exercise_2" -> {"llm", "POSTGRES_URL"}
      [] s = "exercise_3" -> {"llm", "GITHUB_TOKEN"}
      [] s = "exercise_b" -> {"llm", "DATABASE"}

Running == [code |-> -1, report |-> "none"]

\* print(...) and sys.exit(1) or exit(1)
ExitOne == [code |-> 1, report |-> "message", spc |-> "exit", executor |-> "unset"]

\* an exception that nothing catches: the traceback is printed and the
\* interpreter ends with code 1
Uncaught == [code |-> 1, report |-> "traceback", spc |-> "exit", executor |-> "unset"]

\* the initialisation is through
GoesOn(position, executor) ==
    [code |-> -1, report |-> "none", spc |-> position, executor |-> executor]

\* the statements of a script before its agent is built: what they do with
\* the configuration e.  exercise_2.py and exercise_3.py do not test llm:
\* initialize_agent is given None and raises.  exercise_3.py does not test
\* GITHUB_TOKEN.
module_init(s, e) ==
    CASE s = "1_weather_agent" ->
            IF "llm" \notin e THEN {ExitOne} ELSE {GoesOn("create", "unset")}
      [] s = "2_sql_agent" ->
            IF "llm" \notin e THEN {ExitOne}
            ELSE IF "DATABASE" \notin e THEN {ExitOne}
            ELSE {GoesOn("create", "unset")}
      [] s = "3_github_agent" ->
            IF "GITHUB_TOKEN" \notin e THEN {ExitOne}
            ELSE IF "llm" \notin e THEN {ExitOne}
            ELSE {GoesOn("create", "unset")}
      [] s = "exercise_b" ->
            IF "llm" \notin e THEN {ExitOne}
            ELSE IF "DATABASE" \notin e THEN {ExitOne}
            ELSE {GoesOn("run", "app")}
      [] s = "exercise_2" ->
            IF "POSTGRES_URL" \notin e THEN {Uncaught}
            ELSE IF "llm" \notin e THEN {Uncaught}
            ELSE {GoesOn("run", "legacy")}
      [] s = "exercise_3" ->
            IF "llm" \notin e THEN {Uncaught}
            ELSE {GoesOn("run", "legacy")}

loopVars == <<pc, run, input, chat_history, intermediate_steps, agent_outcome,
              agent_output, llm_shape, n_actions, n_invocations, tool_error,
              llm_error, agent_scratchpad>>

ScriptInit ==
    /\ pc = "idle"
    /\ run = 1
    /\ input = Task1
    /\ chat_history = <<>>
    /\ intermediate_steps = <<>>
    /\ agent_outcome = None
    /\ agent_output = <<>>
    /\ llm_shape = EmptyShape
    /\ n_actions = 0
    /\ n_invocations = 0
    /\ tool_error = "none"
    /\ llm_error = "none"
    /\ agent_scratchpad = <<>>
    /\ script \in Scripts
    /\ env \in SUBSET Uses(script)
    /\ db_result \in (IF script \in {"2_sql_agent", "exercise_b"} /\ env = Uses(script)
                      THEN {NoFile, FileOf(<<"old">>)}
                      ELSE {NoFile})
    /\ builds \in (IF script \in FallbackScripts /\ env = Uses(script)
                   THEN SUBSET {Builders[i] : i \in 1..Len(Builders)}
                   ELSE IF script \in {"exercise_2", "exercise_3"}
                   THEN {{"legacy"}} ELSE {{}})
    /\ spc = "start"
    /\ attempts = <<>>
    /\ agent_executor = "unset"
    /\ tcall = NoCall
    /\ tresult = NoResult
    /\ exit_status = Running
    /\ query_result \in (IF script = "exercise_2" /\ env = Uses(script)
                         THEN {NoFile, FileOf(<<"old">>)}
                         ELSE {NoFile})

\* the module runs its initialisation: the process ends there, or goes on to
\* build its agent
module_start ==
    /\ spc = "start"
    /\ \E r \in module_init(script, env) :
          /\ exit_status' = [code |-> r.code, report |-> r.report]
          /\ spc' = r.spc
          /\ agent_executor' = r.executor
    /\ UNCHANGED <<script, builds, attempts, tcall, tresult, env, db_result,
                   query_result>>
    /\ UNCHANGED loopVars

\* agent_executor = create_agent_with_fallback(), and the branch of __main__
\* on the executor: the agent runs, or the tools are called directly
create_agent ==
    /\ spc = "create"
    /\ LET r == create_agent_with_fallback(builds)
       IN  /\ attempts' = r.attempts
           /\ agent_executor' = r.executor
           /\ spc' = IF r.executor # "None" THEN "run" ELSE "direct"
    /\ UNCHANGED <<script, builds, tcall, tresult, db_result, env, exit_status,
                   query_result>>
    /\ UNCHANGED loopVars

\* one call of the SQL tool
call_sql ==
    /\ spc = "run"
    /\ script \in {"2_sql_agent", "exercise_2", "exercise_b"}
    /\ \E query \in Queries :
         \E r \in DbRun(CleanQuery(query)) :
            /\ tcall' = [tool |-> "clean_and_run_sql", input |-> query, reply |-> r,
                         before |-> db_result]
            /\ tresult' = IF script = "exercise_2"
                          THEN exercise_2_clean_and_run_sql(r)
                          ELSE [raised |-> FALSE, type |-> "str",
                                value |-> SqlAnswer(CleanQuery(query), r)]
    /\ UNCHANGED <<script, spc, builds, attempts, agent_executor, db_result, env,
                   exit_status, query_result>>
    /\ UNCHANGED loopVars

\* one call of WriteQueryResultToFile
call_write_file ==
    /\ spc = "run"
    /\ script \in {"2_sql_agent", "exercise_b"}
    /\ \E input_string \in WriteInputs :
         \E r \in WriteQueryResultToFile(input_string, db_result) :
            /\ tcall' = [tool |-> "WriteQueryResultToFile", input |-> input_string,
                         before |-> db_result]
            /\ tresult' = [raised |-> FALSE, value |-> r.value]
            /\ db_result' = r.file
    /\ UNCHANGED <<script, spc, builds, attempts, agent_executor, env, exit_status,
                   query_result>>
    /\ UNCHANGED loopVars

\* f"{result}" for what db.run returned: a string as it is, a list of
\* one-column rows as Python prints it
RECURSIVE RowsRepr(_)
RowsRepr(rows) ==
    IF rows = <<>> THEN <<>>
    ELSE <<"(">> \o rows[1] \o <<",)">>
         \o (IF Len(rows) = 1 THEN <<>> ELSE <<",", SP>>)
         \o RowsRepr(Tail(rows))
ResultStr(result) ==
    IF result.type = "list" THEN <<"[">> \o RowsRepr(result.value) \o <<"]">>
    ELSE result.value

\* the process goes on with the value the tool returned
ToolReturned(value, file) ==
    [exits |-> FALSE, code |-> -1, result |-> [raised |-> FALSE, value |-> value],
     file |-> file]

\* sys.exit() inside the tool: SystemExit is no Exception, nothing catches
\* it, and the process ends with the exit code 0
ToolExited(file) ==
    [exits |-> TRUE, code |-> 0, result |-> NoResult, file |-> file]

\* a mutant of exercise_2_WriteQueryResultToFile: sys.exit() is left out and
\* the tool returns after the write
exercise_2_WriteQueryResultToFileReturning(r, file) ==
    LET result == exercise_2_clean_and_run_sql(r)
    IN  IF result.raised
        THEN {ToolReturned(<<"Failed to write query result:", SP, result.reason>>, file)}
        ELSE {ToolReturned(<<"This is the result of the query:", SP>> \o ResultStr(result),
                           WrittenFile(file, <<"This is the result of the query:", SP>>
                                               \o ResultStr(result)))}
             \cup {ToolReturned(<<"Failed to write query result:", SP, "OSError">>, f) :
                     f \in FailedWrite(file)}

\* WriteQueryResultToFile of exercise_2.py, when db.run answers r: how the
\* call ends, and the file filepath/query_result.txt it leaves
exercise_2_WriteQueryResultToFile(r, file) ==
    LET result == exercise_2_clean_and_run_sql(r)
    IN  IF result.raised
        THEN {ToolReturned(<<"Failed to write query result:", SP, result.reason>>, file)}
        ELSE {ToolExited(WrittenFile(file, <<"This is the result of the query:", SP>>
                                             \o ResultStr(result)))}
             \cup {ToolReturned(<<"Failed to write query result:", SP, "OSError">>, f) :
                     f \in FailedWrite(file)}

\* one call of WriteQueryResultToFile of exercise_2.py, made by the agent that
\* the script runs at module level
exercise_2_call_write_file ==
    /\ spc = "run"
    /\ script = "exercise_2"
    /\ \E query \in Queries :
         \E r \in DbRun(CleanQuery(query)) :
            \E o \in exercise_2_WriteQueryResultToFile(r, query_result) :
               /\ tcall' = [tool |-> "WriteQueryResultToFile", input |-> query,
                            reply |-> r, before |-> query_result]
               /\ tresult' = o.result
               /\ query_result' = o.file
               /\ spc' = IF o.exits THEN "exit" ELSE spc
               /\ exit_status' = IF o.exits THEN [code |-> o.code, report |-> "none"]
                                 ELSE exit_status
    /\ UNCHANGED <<script, builds, attempts, agent_executor, db_result, env>>
    /\ UNCHANGED loopVars

\* one call of ReadFile
call_read_file ==
    /\ spc = "run"
    /\ script \in {"2_sql_agent", "exercise_b"}
    /\ \E file_name \in FileNames :
         \E r \in ReadFile(file_name, db_result) :
            /\ tcall' = [tool |-> "ReadFile", input |-> file_name,
                         before |-> db_result]
            /\ tresult' = [raised |-> FALSE, value |-> r.value]
            /\ db_result' = r.file
    /\ UNCHANGED <<script, spc, builds, attempts, agent_executor, env, exit_status,
                   query_result>>
    /\ UNCHANGED loopVars

\* what one HTTP request meets: the connection fails, or a response comes
\* back with a status code and a body.  The body is the JSON document the
\* tool reads on success ("expected"), a JSON document with no entries
\* ("empty"), a JSON error document ("message"), or text that is no JSON
\* ("html").
Statuses == {200, 201, 204, 404, 500}
Bodies == {"expected", "empty", "message", "html"}
HttpReplies ==
    {[kind |-> "network_error", reason |-> "ConnectionError"]}
    \cup {[kind |-> "response", status |-> st, body |-> b] : st \in Statuses, b \in Bodies}
NoReply == [kind |-> "none"]

\* the text of a body
BodyText(b) ==
    CASE b = "expected" -> "{expected document}"
      [] b = "empty" -> "[]"
      [] b = "message" -> "{'message': 'Not Found'}"
      [] b = "html" -> "<html>Bad Gateway</html>"

\* response.json() raises on a body that is no JSON
JsonRaises(reply) == reply.body = "html"

Returned(v) == [raised |-> FALSE, value |-> v]
Raised(e) == [raised |-> TRUE, reason |-> e]

\* the sign of degrees, followed by "C."
DegreesC == "<deg>C."

\* get_weather(city) of 1_weather_agent.py
get_weather(city, reply) ==
    IF reply.kind = "network_error"
    THEN Returned(<<"Weather error:", SP, reply.reason>>)
    ELSE IF reply.status = 200
    THEN IF JsonRaises(reply)
         THEN Returned(<<"Weather error:", SP, "JSONDecodeError">>)
         ELSE IF reply.body # "expected"
         THEN Returned(<<"Weather error:", SP, "'current_condition'">>)
         ELSE Returned(<<"The weather in", SP, city, SP, "is a", SP, "sunny", SP,
                         "with a temperature of", SP, "21", DegreesC>>)
    ELSE Returned(<<"Could not get weather for", SP, city>>)

\* search_repositories(query) of 3_github_agent.py
search_repositories(query, reply) ==
    IF reply.kind = "network_error" THEN Raised(reply.reason)
    ELSE IF JsonRaises(reply) THEN Raised("JSONDecodeError")
    ELSE IF reply.status = 200
    THEN IF reply.body = "expected"
         THEN Returned(<<"Repo:", SP, "octo/demo", ",", SP, "URL:", SP,
                         "https://github.com/octo/demo">>)
         ELSE Returned(<<"No repositories found for query:", SP, query>>)
    ELSE Returned(<<"Error:", SP, BodyText(reply.body)>>)

\* get_repo_details(repo_name) of 3_github_agent.py
get_repo_details(repo_name, reply) ==
    IF reply.kind = "network_error" THEN Raised(reply.reason)
    ELSE IF reply.status = 200
    THEN IF JsonRaises(reply) THEN Raised("JSONDecodeError")
         ELSE IF reply.body # "expected" THEN Raised("KeyError")
         ELSE Returned(<<"Repo:", SP, repo_name, NL, "Description:", SP, "demo", NL,
                         "Stars:", SP, "1", NL, "Forks:", SP, "0", NL,
                         "Language:", SP, "Python", NL, "URL:", SP,
                         "https://github.com/octo/demo">>)
    ELSE IF reply.status = 404
    THEN Returned(<<"Error: Repository", SP, SQ, repo_name, SQ, SP,
                    "not found. Please ensure the format is 'owner/repo_name'.">>)
    ELSE IF JsonRaises(reply) THEN Raised("JSONDecodeError")
    ELSE Returned(<<"Error fetching details for", SP, repo_name, ":", SP,
                    BodyText(reply.body)>>)

\* the inputs of create_issue: a JSON object with the keys, a JSON object
\* without the title, text that is no JSON, a JSON array and a JSON number
IssueInput == "{'repo_name': 'octo/demo', 'title': 'Bug'}"
IssueNoTitle == "{'repo_name': 'octo/demo'}"
IssueNoJson == "open an issue"
IssueArray == "['octo/demo', 'Bug']"
IssueNumber == "42"
IssueInputs == {IssueInput, IssueNoTitle, IssueNoJson, IssueArray, IssueNumber}

\* the try block of create_issue: json.loads and the reads of the keys.
\* json.loads raises JSONDecodeError on text that is no JSON and a dict
\* without the key raises KeyError, which the handler catches; a list or a
\* number indexed with 'repo_name' raises TypeError, which it does not catch
IssueParse(input_str) ==
    CASE input_str = IssueInput -> "parsed"
      [] input_str \in {IssueNoJson, IssueNoTitle} -> "caught"
      [] input_str \in {IssueArray, IssueNumber} -> "TypeError"

IssueParses(input_str) == IssueParse(input_str) = "parsed"

\* create_issue(input_str) of 3_github_agent.py; the request is only made
\* when the input parses
create_issue(input_str, reply) ==
    IF IssueParse(input_str) = "caught"
    THEN Returned(<<"Error: Input should be JSON format like {'repo_name': 'owner/repo', 'title': 'Issue title', 'body': 'Issue body'}">>)
    ELSE IF IssueParse(input_str) # "parsed" THEN Raised(IssueParse(input_str))
    ELSE IF reply.kind = "network_error" THEN Raised(reply.reason)
    ELSE IF JsonRaises(reply) THEN Raised("JSONDecodeError")
    ELSE IF reply.status = 201
    THEN IF reply.body # "expected" THEN Raised("KeyError")
         ELSE Returned(<<"Issue created:", SP, "https://github.com/octo/demo/issues/1">>)
    ELSE Returned(<<"Error creating issue in", SP, "octo/demo", ":", SP,
                    BodyText(reply.body)>>)

\* list_issues(repo_name) of 3_github_agent.py
list_issues(repo_name, reply) ==
    IF reply.kind = "network_error" THEN Raised(reply.reason)
    ELSE IF reply.status = 200
    THEN IF JsonRaises(reply) THEN Raised("JSONDecodeError")
         ELSE IF reply.body = "empty"
         THEN Returned(<<"No open issues found in", SP, repo_name>>)
         ELSE IF reply.body = "message" THEN Raised("TypeError")
         ELSE Returned(<<"#1:", SP, "Bug", SP, "-", SP,
                         "https://github.com/octo/demo/issues/1">>)
    ELSE IF reply.status = 404
    THEN Returned(<<"Error: Repository", SP, SQ, repo_name, SQ, SP,
                    "not found. Please ensure the format is 'owner/repo_name'.">>)
    ELSE IF JsonRaises(reply) THEN Raised("JSONDecodeError")
    ELSE Returned(<<"Error listing issues for", SP, repo_name, ":", SP,
                    BodyText(reply.body)>>)

\* the agent of script s calls the tool: the call and its result are recorded
ToolCalled(s, tool, tool_input, reply, result) ==
    /\ spc = "run"
    /\ script = s
    /\ tcall' = [tool |-> tool, input |-> tool_input, reply |-> reply,
                 before |-> db_result]
    /\ tresult' = result
    /\ UNCHANGED <<script, spc, builds, attempts, agent_executor, db_result, env,
                   exit_status, query_result>>
    /\ UNCHANGED loopVars

call_get_weather ==
    \E reply \in HttpReplies :
        ToolCalled("1_weather_agent", "get_weather", "London", reply,
                   get_weather("London", reply))

call_search_repositories ==
    \E reply \in HttpReplies :
        ToolCalled("3_github_agent", "search_repositories", "langchain", reply,
                   search_repositories("langchain", reply))

call_get_repo_details ==
    \E reply \in HttpReplies :
        ToolCalled("3_github_agent", "get_repo_details", "octo/demo", reply,
                   get_repo_details("octo/demo", reply))

call_create_issue ==
    \E input_str \in IssueInputs :
        \E reply \in (IF IssueParses(input_str) THEN HttpReplies ELSE {NoReply}) :
            ToolCalled("3_github_agent", "create_issue", input_str, reply,
                       create_issue(input_str, reply))

call_list_issues ==
    \E reply \in HttpReplies :
        ToolCalled("3_github_agent", "list_issues", "octo/demo", reply,
                   list_issues("octo/demo", reply))

\* the numbers of the expressions: integers and decimals
IntTokens == {"0", "1", "2", "3", "6", "7", "15", "23"}
DecimalTokens == {"0.1", "0.2", "0.5"}
IntOf(t) == CHOOSE n \in 0..23 : ToString(n) = t

\* allowed_chars = set('0123456789+-*/.() '): the tokens made of these
\* characters only
AllowedTokens == IntTokens \cup DecimalTokens \cup {"+", "-", "*", "/", ".", "(", ")", SP}

\* what Python computes: an int of any size, a float (held by its repr), or
\* the exception the evaluation raised
PyInt(n) == [kind |-> "int", n |-> n]
PyFloat(r) == [kind |-> "float", repr |-> r]
PyError(e) == [kind |-> "error", err |-> e]
PyRepr(v) == IF v.kind = "int" THEN ToString(v.n) ELSE v.repr

\* the binary floating point operations that the expressions of the model
\* lead to, with the results CPython gives
FloatOp(op, a, b) ==
    CASE <<op, a, b>> = <<"/", "6", "3">> -> "2.0"
      [] <<op, a, b>> = <<"/", "7", "2">> -> "3.5"
      [] <<op, a, b>> = <<"/", "1", "3">> -> "0.3333333333333333"
      [] <<op, a, b>> = <<"+", "0.1", "0.2">> -> "0.30000000000000004"
      [] <<op, a, b>> = <<"+", "0.5", "0.5">> -> "1.0"
      [] <<op, a, b>> = <<"+", "2.0", "1">> -> "3.0"

\* one binary operation of Python: + - * on two ints is exact, / yields a
\* float and raises on a zero divisor, an operation with a float is done in
\* binary floating point
PyBin(op, x, y) ==
    IF x.kind = "error" THEN x
    ELSE IF y.kind = "error" THEN y
    ELSE IF op = "/" /\ y = PyInt(0) THEN PyError("division by zero")
    ELSE IF x.kind = "int" /\ y.kind = "int" /\ op # "/"
    THEN PyInt(CASE op = "+" -> x.n + y.n
                 [] op = "-" -> x.n - y.n
                 [] op = "*" -> x.n * y.n)
    ELSE PyFloat(FloatOp(op, PyRepr(x), PyRepr(y)))

PyNeg(x) ==
    IF x.kind = "error" THEN x
    ELSE IF x.kind = "int" THEN PyInt(0 - x.n)
    ELSE PyFloat("-" \o x.repr)

Parsed_(v, p) == [ok |-> TRUE, val |-> v, pos |-> p]
NoParse == [ok |-> FALSE]

\* the grammar of Python's arithmetic expressions over the tokens ts, read
\* from position p: sums of products of numbers, signed and parenthesised
RECURSIVE PyExpr(_, _), PyExprRest(_, _, _), PyTerm(_, _), PyTermRest(_, _, _), PyFactor(_, _)
PyFactor(ts, p) ==
    IF p > Len(ts) THEN NoParse
    ELSE IF ts[p] \in IntTokens THEN Parsed_(PyInt(IntOf(ts[p])), p + 1)
    ELSE IF ts[p] \in DecimalTokens THEN Parsed_(PyFloat(ts[p]), p + 1)
    ELSE IF ts[p] = "("
    THEN LET e == PyExpr(ts, p + 1)
         IN  IF e.ok /\ e.pos <= Len(ts) /\ ts[e.pos] = ")"
             THEN Parsed_(e.val, e.pos + 1)
             ELSE NoParse
    ELSE IF ts[p] \in {"+", "-"}
    THEN LET f == PyFactor(ts, p + 1)
         IN  IF ~f.ok THEN NoParse
             ELSE Parsed_(IF ts[p] = "-" THEN PyNeg(f.val) ELSE f.val, f.pos)
    ELSE NoParse

PyTermRest(ts, left, p) ==
    IF p <= Len(ts) /\ ts[p] \in {"*", "/"}
    THEN LET f == PyFactor(ts, p + 1)
         IN  IF ~f.ok THEN NoParse
             ELSE PyTermRest(ts, PyBin(ts[p], left, f.val), f.pos)
    ELSE Parsed_(left, p)

PyTerm(ts, p) ==
    LET f == PyFactor(ts, p)
    IN  IF ~f.ok THEN NoParse ELSE PyTermRest(ts, f.val, f.pos)

PyExprRest(ts, left, p) ==
    IF p <= Len(ts) /\ ts[p] \in {"+", "-"}
    THEN LET t == PyTerm(ts, p + 1)
         IN  IF ~t.ok THEN NoParse
             ELSE PyExprRest(ts, PyBin(ts[p], left, t.val), t.pos)
    ELSE Parsed_(left, p)

PyExpr(ts, p) ==
    LET t == PyTerm(ts, p)
    IN  IF ~t.ok THEN NoParse ELSE PyExprRest(ts, t.val, t.pos)

\* eval(expression): the text is compiled, which fails on text that is no
\* expression, and then evaluated
eval(expression) ==
    LET ts == SelectSeq(expression, LAMBDA t : t # SP)
        e == PyExpr(ts, 1)
    IN  IF ~e.ok \/ e.pos <= Len(ts)
        THEN PyError("invalid syntax (<string>, line 1)")
        ELSE e.val

\* a mutant of ResultText: the expression is returned with the result
ResultTextWithExpression(expression, result) ==
    expression \o <<SP, "=", SP, PyRepr(result)>>

\* f"{result}"
ResultText(expression, result) == <<PyRepr(result)>>

\* calculate(expression) of 1_weather_agent.py; evaluated tells whether eval
\* was called
calculate(expression) ==
    IF \E i \in 1..Len(expression) : expression[i] \notin AllowedTokens
    THEN [raised |-> FALSE, value |-> <<"Invalid characters in expression">>,
          evaluated |-> FALSE]
    ELSE LET result == eval(expression)
         IN  IF result.kind = "error"
             THEN [raised |-> FALSE,
                   value |-> <<"Calculation error:", SP, result.err>>,
                   evaluated |-> TRUE]
             ELSE [raised |-> FALSE, value |-> ResultText(expression, result),
                   evaluated |-> TRUE]

\* the expressions of the calls: a op1 b, or a op1 b op2 c with one pair of
\* parentheses or none, with or without spaces around the operators,
\* followed by nothing, by an operator or by a letter
NoC == ""
Shape(a, op1, b, op2, c, paren, pad, tail) ==
    [a |-> a, op1 |-> op1, b |-> b, op2 |-> op2, c |-> c, paren |-> paren,
     pad |-> pad, tail |-> tail]
IntShapes ==
    {Shape(a, op1, b, op2, c, paren, pad, tail) :
        a \in {"15", "6"}, op1 \in {"+", "-", "*"}, b \in {"7"},
        op2 \in {NoC, "+", "-", "*"}, c \in {"23"},
        paren \in {"none", "left", "right"}, pad \in {0, 1},
        tail \in {NoC, "+", "x"}}
FloatShapes ==
    {Shape("6", "/", "3", NoC, "2", "none", 1, NoC),
     Shape("7", "/", "2", NoC, "2", "none", 1, NoC),
     Shape("1", "/", "3", NoC, "2", "none", 1, NoC),
     Shape("7", "/", "0", NoC, "2", "none", 1, NoC),
     Shape("7", "/", "0", NoC, "2", "none", 1, "+"),
     Shape("6", "/", "3", "+", "1", "none", 0, NoC),
     Shape("0.1", "+", "0.2", NoC, "2", "none", 1, NoC),
     Shape("0.5", "+", "0.5", NoC, "2", "none", 1, NoC)}
CalcShapes ==
    {sh \in IntShapes : sh.op2 = NoC => sh.paren = "none"}
    \cup FloatShapes

\* the text of an expression
RenderExpr(sh) ==
    LET sp == Repeat(SP, sh.pad)
        ab == <<sh.a>> \o sp \o <<sh.op1>> \o sp \o <<sh.b>>
        bc == <<sh.b>> \o sp \o <<sh.op2>> \o sp \o <<sh.c>>
        body == IF sh.op2 = NoC THEN ab
                ELSE IF sh.paren = "left"
                THEN <<"(">> \o ab \o <<")">> \o sp \o <<sh.op2>> \o sp \o <<sh.c>>
                ELSE IF sh.paren = "right"
                THEN <<sh.a>> \o sp \o <<sh.op1>> \o sp \o <<"(">> \o bc \o <<")">>
                ELSE ab \o sp \o <<sh.op2>> \o sp \o <<sh.c>>
    IN  body \o (IF sh.tail = NoC THEN <<>> ELSE sp \o <<sh.tail>>)

call_calculate ==
    \E sh \in CalcShapes :
        LET r == calculate(RenderExpr(sh))
        IN  ToolCalled("1_weather_agent", "calculate", RenderExpr(sh), sh, r)

ScriptNext ==
    \/ module_start
    \/ create_agent
    \/ call_sql
    \/ call_write_file
    \/ call_read_file
    \/ exercise_2_call_write_file
    \/ call_get_weather
    \/ call_search_repositories
    \/ call_get_repo_details
    \/ call_create_issue
    \/ call_list_issues
    \/ call_calculate

ScriptSpec == ScriptInit /\ [][ScriptNext]_vars

----------------------------------------------------------------------------
(* Properties of the loop, checked under Spec *)

Last(s) == s[Len(s)]

\* C1: every execution of the tools node is followed by the agent node; no
\* step leads from the tools node to END, whatever the tool did.
C1_ToolsThenAgent == [][pc = "tools" => pc' = "agent"]_vars

\* the loop is back at the agent node after a failed invocation and an
\* invocation of an unregistered tool
C1_Witness ==
    /\ pc = "agent"
    /\ Len(intermediate_steps) = 2
    /\ intermediate_steps[1][2][1] = "Tool Execution Error for tool"
    /\ intermediate_steps[2][1].tool \notin ToolNames

\* C2: END is entered only from the agent node and only with a Finish in
\* agent_outcome; in every END state agent_outcome is a Finish.
C2_EndOnlyOnFinish ==
    /\ [](pc = "END" => agent_outcome.type = "Finish")
    /\ [][pc' = "END" /\ pc # "END" =>
            pc = "agent" /\ agent_outcome'.type = "Finish"]_vars

\* a run ended after a tool was executed
C2_Witness ==
    /\ pc = "END"
    /\ agent_outcome.type = "Finish"
    /\ Len(intermediate_steps) >= 1

\* C3: at the agent node and at END the transcript holds one entry per Action
\* outcome produced in the run and one tool invocation was made per Action;
\* at no time were more invocations made than Actions produced.
C3_OneEntryPerAction ==
    /\ n_invocations <= n_actions
    /\ pc \in {"agent", "END"} =>
          /\ Len(intermediate_steps) = n_actions
          /\ n_invocations = n_actions

\* a run ended after two Actions
C3_Witness ==
    /\ pc = "END"
    /\ n_actions = 2
    /\ Len(intermediate_steps) = 2

\* C4: executing an Action whose tool is not in the registry raises nothing:
\* the step appends the action with a string observation and goes on to the
\* agent node.
C4_UnknownToolObserved ==
    [][(pc = "tools" /\ agent_outcome.tool \notin ToolNames) =>
          /\ pc' = "agent"
          /\ Len(intermediate_steps') = Len(intermediate_steps) + 1
          /\ SubSeq(intermediate_steps', 1, Len(intermediate_steps)) = intermediate_steps
          /\ Last(intermediate_steps')[1] = agent_outcome
          /\ Last(intermediate_steps')[2] \in Seq(STRING)]_vars

\* the unregistered tool's observation is in the transcript, both when the
\* registry answered with a message and when the lookup raised
C4_Witness ==
    /\ pc = "agent"
    /\ Len(intermediate_steps) = 2
    /\ intermediate_steps[1][1].tool = <<"Calculator">>
    /\ intermediate_steps[2][1].tool = <<"Calculator">>
    /\ intermediate_steps[1][2][1] = "Tool Execution Error for tool"
    /\ intermediate_steps[2][2][1] = "Calculator"

\* C5: when the invocation of a registered tool raises, the step catches it:
\* the run does not fail, and the action is appended with an observation
\* that embeds what was raised.
C5_ToolFailureObserved ==
    [][(pc = "tools" /\ agent_outcome.tool \in ToolNames /\ tool_error' # "none") =>
          /\ pc' = "agent"
          /\ Len(intermediate_steps') = Len(intermediate_steps) + 1
          /\ SubSeq(intermediate_steps', 1, Len(intermediate_steps)) = intermediate_steps
          /\ Last(intermediate_steps')[1] = agent_outcome
          /\ Last(intermediate_steps')[2] \in Seq(STRING)
          /\ Contains(Last(intermediate_steps')[2], tool_error')]_vars

\* a registered tool's failure is the last observation of the transcript
C5_Witness ==
    /\ pc = "agent"
    /\ tool_error = "ToolException"
    /\ Len(intermediate_steps) >= 1
    /\ Last(intermediate_steps)[1].tool \in ToolNames
    /\ Contains(Last(intermediate_steps)[2], "ToolException")

\* after the actions answered so far every one was executed and the loop is
\* back at the agent node or on its way there; the run is at END exactly
\* when the last response was no action
LoopGoesOn ==
    /\ pc = "agent" => (n_invocations = n_actions /\ Len(intermediate_steps) = n_actions)
    /\ pc = "tools" => (n_invocations = n_actions - 1 /\ agent_outcome.type = "Action")
    /\ pc = "END" <=> agent_outcome.type = "Finish"

Block(entry) ==
    <<"Thought:", SP>> \o Strip(entry[1].log) \o <<NL, "Observation:", SP>>
    \o Strip(entry[2])

\* where the i-th block begins when the blocks follow each other, one line
\* break between two of them
RECURSIVE BlockStart(_, _)
BlockStart(steps, i) ==
    IF i = 1 THEN 1
    ELSE BlockStart(steps, i - 1) + Len(Block(steps[i - 1])) + 1

\* C23: the scratchpad of a prompt holds one Thought/Observation block per
\* entry of the transcript, in the order of the entries, the i-th block made
\* of the log of the i-th action and of the i-th observation, and nothing
\* else; formatting the prompt leaves the state of the run as it is.
C23_ScratchpadInOrder ==
    [][pc = "agent" =>
          LET k == Len(intermediate_steps)
          IN  /\ \A i \in 1..k :
                    SubSeq(agent_scratchpad', BlockStart(intermediate_steps, i),
                           BlockStart(intermediate_steps, i)
                             + Len(Block(intermediate_steps[i])) - 1)
                      = Block(intermediate_steps[i])
              /\ \A i \in 2..k :
                    agent_scratchpad'[BlockStart(intermediate_steps, i) - 1] = NL
              /\ Len(agent_scratchpad') =
                    IF k = 0 THEN 0
                    ELSE BlockStart(intermediate_steps, k)
                           + Len(Block(intermediate_steps[k])) - 1
              /\ UNCHANGED <<input, chat_history, intermediate_steps>>]_vars

\* a prompt was formatted from a transcript of two different entries
C23_Witness ==
    /\ pc = "END"
    /\ Len(intermediate_steps) = 2
    /\ intermediate_steps[1] # intermediate_steps[2]
    /\ agent_scratchpad # <<>>
    /\ agent_scratchpad = FormatScratchpad(intermediate_steps)

IsPrefix(s, t) == Len(s) <= Len(t) /\ SubSeq(t, 1, Len(s)) = s

\* C11: within one run the transcript only grows at its end: at every step
\* the transcript before the step is a prefix of the transcript after it.
C11_AppendOnly ==
    [][run' = run => IsPrefix(intermediate_steps, intermediate_steps')]_vars

\* a transcript of two different entries, appended by two steps
C11_Witness ==
    /\ Len(intermediate_steps) = 2
    /\ intermediate_steps[1] # intermediate_steps[2]

\* C12: the agent node changes agent_outcome only and leaves
\* intermediate_steps, input and chat_history as they are; the tools node
\* changes intermediate_steps only and leaves agent_outcome, input and
\* chat_history as they are; within a run no other step changes the transcript.
C12_Frames ==
    [][/\ pc = "agent" => UNCHANGED <<intermediate_steps, input, chat_history>>
       /\ pc = "tools" => UNCHANGED <<agent_outcome, input, chat_history>>
       /\ (run' = run /\ intermediate_steps' # intermediate_steps) => pc = "tools"]_vars

\* the tools node ran, and the agent node ran after it on a transcript it kept
C12_Witness ==
    /\ pc = "tools"
    /\ Len(intermediate_steps) = 1
    /\ n_actions = 2
    /\ intermediate_steps[1][1] # agent_outcome

\* C13: END is terminal: from END the run makes no LLM call and no tool
\* invocation, its state stays as it is, and the caller is handed the output
\* of the Finish in agent_outcome.
C13_EndTerminal ==
    [][pc = "END" =>
          /\ agent_output' = Append(agent_output, agent_outcome.output)
          /\ \/ /\ run' = run
                /\ pc' = "exit"
                /\ UNCHANGED <<intermediate_steps, agent_outcome, llm_shape,
                               n_actions, n_invocations, db_result>>
             \/ /\ run' = run + 1
                /\ pc' = "agent"
                /\ intermediate_steps' = <<>>
                /\ n_actions' = 0 /\ n_invocations' = 0
                /\ UNCHANGED <<llm_shape, db_result>>]_vars

\* both runs ended, the first on a final answer after a tool was executed
C13_Witness ==
    /\ pc = "exit"
    /\ run = 2
    /\ Len(agent_output) = 2
    /\ agent_output[1] = <<"4">>

\* C14: when llm.invoke raises, the loop does not recover: the run fails, no
\* tool is invoked and nothing is appended for that step, no Finish is
\* produced and no output is returned; the caller's except block ends the
\* program without another turn of the loop.
C14_LlmFailureEndsRun ==
    [][/\ (llm_error' # "none" /\ pc = "agent") =>
             /\ pc' = "failed"
             /\ UNCHANGED <<intermediate_steps, agent_outcome, agent_output,
                            n_actions, n_invocations, run>>
       /\ pc = "failed" =>
             /\ pc' = "exit"
             /\ UNCHANGED <<intermediate_steps, agent_outcome, agent_output,
                            n_actions, n_invocations, run>>
       /\ pc # "exit"]_vars

\* the call failed after a tool had been executed, and the program ended
C14_Witness ==
    /\ pc = "exit"
    /\ llm_error # "none"
    /\ Len(intermediate_steps) = 1
    /\ agent_outcome.type = "Action"
    /\ agent_output = <<>>

----------------------------------------------------------------------------
(* Properties of the parser, checked under ParserSpec *)

\* the response holds a line "Action: <tool>" followed by a line "Action Input: <input>"
HasActionPair(sh) == sh.act = "Action:" /\ sh.sep = NL /\ sh.aim = "Action Input:"

Parsed == pc # "agent"

\* C6: for every response text, the empty one included, the decision step
\* ends with exactly one outcome, an Action or a Finish, and is routed on it.
C6_OneOutcome ==
    Parsed =>
        /\ agent_outcome.type \in {"Action", "Finish"}
        /\ agent_outcome.type = "Action" <=> pc = "tools"
        /\ agent_outcome.type = "Finish" <=> pc = "END"

\* the empty response was parsed
C6_Witness ==
    /\ pc = "END"
    /\ agent_outcome.type = "Finish"
    /\ agent_outcome.log = <<>>

\* C7: a response with an Action / Action Input pair parses to an Action with
\* exactly the tool name and the input of the pair, whatever the blanks, the
\* quotes around the input and the text after the Action Input line.
C7_ExactFields ==
    (Parsed /\ HasActionPair(llm_shape)) =>
        /\ agent_outcome.type = "Action"
        /\ agent_outcome.tool = llm_shape.tool
        /\ agent_outcome.tool_input = llm_shape.inp

\* C8, as claimed: every response with "Final Answer: <text>" parses to a
\* Finish whose output is the trimmed text after the marker.
C8_FinalAnswerAlways ==
    (Parsed /\ llm_shape.fin = "Final Answer:") =>
        /\ agent_outcome.type = "Finish"
        /\ agent_outcome.output = Strip(AfterFinal(llm_shape))

\* C8, amended: a response with "Final Answer: <text>" and without an
\* Action / Action Input pair parses to a Finish whose output is the text
\* from the marker to the end of the response, trimmed.
C8_FinalAnswerWithoutAction ==
    (Parsed /\ llm_shape.fin = "Final Answer:" /\ ~HasActionPair(llm_shape)) =>
        /\ agent_outcome.type = "Finish"
        /\ agent_outcome.output = Strip(AfterFinal(llm_shape))

\* a padded final answer without an Action pair was parsed
C8_Witness ==
    /\ pc = "END"
    /\ llm_shape.fin = "Final Answer:"
    /\ llm_shape.act = ""
    /\ llm_shape.pad = 1
    /\ llm_shape.fintext = <<"4", NL, "users">>
    /\ agent_outcome.output = <<"4", NL, "users">>

\* C25: a response holding both an Action / Action Input pair and a
\* Final Answer is parsed as an action, wherever the final answer stands, and
\* the run goes on to the tools node; it is never a finish.
C25_ActionBeforeFinal ==
    (Parsed /\ HasActionPair(llm_shape) /\ llm_shape.fin = "Final Answer:") =>
        /\ agent_outcome.type = "Action"
        /\ pc = "tools"

\* such a response, its final answer written before the action
C25_Witness ==
    /\ pc = "tools"
    /\ HasActionPair(llm_shape)
    /\ llm_shape.fin = "Final Answer:"
    /\ llm_shape.finFirst
    /\ llm_shape.fintext # <<>>
    /\ agent_outcome.type = "Action"

\* C9: a response that matches neither pattern parses to a Finish whose
\* output is the raw response, unchanged, and the run ends on that step.
C9_FallbackRaw ==
    (Parsed /\ ~HasActionPair(llm_shape) /\ llm_shape.fin # "Final Answer:") =>
        /\ agent_outcome.type = "Finish"
        /\ agent_outcome.output = Render(llm_shape)
        /\ pc = "END"

\* a response with blanks at its ends and no marker the parser knows was parsed
C9_Witness ==
    /\ pc = "END"
    /\ llm_shape.pre = <<SP>>
    /\ llm_shape.act = "action:"
    /\ llm_shape.fin = ""
    /\ llm_shape.pad = 1
    /\ agent_outcome.output[1] = SP

\* the response with every marker in the letter case of the patterns
Canonical(sh) ==
    [sh EXCEPT !.act = IF sh.act = "" THEN "" ELSE "Action:",
               !.aim = "Action Input:",
               !.fin = IF sh.fin = "" THEN "" ELSE "Final Answer:"]

SameFields(a, b) ==
    /\ a.type = b.type
    /\ a.type = "Action" => a.tool = b.tool /\ a.tool_input = b.tool_input
    /\ a.type = "Finish" => a.output = b.output

\* C10, as claimed: a response parses to the same kind of outcome with the
\* same fields as the response that differs from it only in the letter case
\* of the markers.
C10_CaseInsensitive ==
    Parsed => SameFields(agent_outcome, ParseOutcome(Render(Canonical(llm_shape))))

\* C10, amended: the markers are matched case-sensitively: with "Action:" or
\* "Action Input:" in another letter case the response is no Action, and
\* with "Final Answer:" in another letter case as well the outcome is the
\* fallback Finish that holds the raw response.
C10_CaseSensitive ==
    (Parsed /\ (llm_shape.act = "action:"
                \/ (llm_shape.act # "" /\ llm_shape.aim = "action input:"))) =>
        /\ agent_outcome.type = "Finish"
        /\ llm_shape.fin = "final answer:" => agent_outcome.output = Render(llm_shape)

\* a well-formed response with its markers in lower case was parsed
C10_Witness ==
    /\ pc = "END"
    /\ llm_shape.act = "action:"
    /\ llm_shape.sep = NL
    /\ llm_shape.aim = "action input:"
    /\ llm_shape.fin = "final answer:"
    /\ agent_outcome.type = "Finish"

----------------------------------------------------------------------------
(* Properties of the tools and of the agent builders, checked under          *)
(* ScriptSpec                                                                *)

IsSuffix(s, t) == Len(s) <= Len(t) /\ SubSeq(t, Len(t) - Len(s) + 1, Len(t)) = s

\* C21: when configuration that the script needs is missing (the LLM, the
\* path of the database, the token of GitHub), the script reports it and the
\* process ends with an exit code other than 0, before an agent is built
\* and before a tool is called.
C21_MissingConfigIsFatal ==
    (spc # "start" /\ (Uses(script) \cap {"llm", "DATABASE", "GITHUB_TOKEN"}) \ env # {}) =>
        /\ spc = "exit"
        /\ exit_status.code > 0
        /\ exit_status.report # "none"
        /\ agent_executor = "unset"
        /\ attempts = <<>>
        /\ tcall = NoCall

\* C22: for every input that is no JSON object with both 'repo_name' and
\* 'title' (text that is no JSON, a JSON array or scalar, an object without
\* a key) create_issue returns an error string, sends no request and does
\* not raise.
C22_MalformedIssueInput ==
    (tcall.tool = "create_issue" /\ tcall.input # IssueInput) =>
        /\ tcall.reply = NoReply
        /\ ~tresult.raised
        /\ tresult.value[1] \notin {"Issue created:"}
        /\ Len(tresult.value) = 1

HttpTools == {"get_weather", "search_repositories", "get_repo_details",
              "create_issue", "list_issues"}

\* the observations with which the HTTP tools report a failure
HttpErrorHeads ==
    {"Weather error:", "Could not get weather for", "Error:", "Error: Repository",
     "Error fetching details for", "Error creating issue in",
     "Error listing issues for"}

\* C15: every HTTP tool treats any 2xx response as success, turns any other
\* response into a string that holds the body of the response and turns a
\* failure of the network into a string as well; none of them raises.
C15_HttpFailuresAreStrings ==
    (tcall.tool \in HttpTools /\ tcall.reply # NoReply) =>
        /\ ~tresult.raised
        /\ tcall.reply.kind = "response" =>
              IF tcall.reply.status \in 200..299
              THEN tcall.reply.body = "expected" =>
                      tresult.value[1] \notin HttpErrorHeads
              ELSE Contains(tresult.value, BodyText(tcall.reply.body))

\* C16: in exercise_b.py, 2_sql_agent.py and exercise_2.py alike, the SQL tool
\* never raises: for every query it returns a string, and when the database
\* rejects the query the string is an error message that holds the failure
\* and the query.
C16_SqlNeverRaises ==
    tcall.tool = "clean_and_run_sql" =>
        /\ ~tresult.raised
        /\ tresult.type = "str"
        /\ tcall.reply.raised =>
              /\ Contains(tresult.value, tcall.reply.reason)
              /\ IsSuffix(CleanQuery(tcall.input), tresult.value)

\* the write tool was called with an input of the form 'SQL: <SELECT query>'
SelectInputs == {<<"SQL:", SP, q>> : q \in {CountUsers, BadSelect}}

\* the observation says that the file was written
WriteOk(v) == v # <<>> /\ v[1] = "Query result successfully written to"

\* the observation says that the read failed
ReadFailed(v) == v # <<>> /\ v[1] = "Error reading file:"

\* the result that the observation of a write reports, after "Result: "
ReportedResult(v) ==
    LET i == CHOOSE k \in 1..Len(v) : v[k] = "Result:"
    IN  Slice(v, i + 2, Len(v))

\* db_result.txt holds the sentence with the result that the observation
\* reports and nothing of what it held before, the result is that of the
\* query, and the observation names the path of the file
WrittenAndReported(query, v, file) ==
    /\ WriteOk(v)
    /\ Contains(v, BaseDir) /\ Contains(v, FileName)
    /\ file.exists
    /\ file.content = <<"The number of users is:", SP>> \o ReportedResult(v)
    /\ query = CountUsers => Contains(file.content, "4")
    /\ query = BadSelect => Contains(file.content, "SQL execution error:")

\* C17, as claimed: WriteQueryResultToFile called with 'SQL: <SELECT query>'
\* runs the query, overwrites db_result.txt so that it holds the result (the
\* count 4 for the count of the 4-row table) and returns an observation that
\* names the path; the next ReadFile('db_result.txt') returns exactly what
\* was written.
C17_WriteThenRead ==
    [][/\ (tcall'.tool = "WriteQueryResultToFile" /\ tcall'.input \in SelectInputs) =>
              WrittenAndReported(tcall'.input[3], tresult'.value, db_result')
       /\ (/\ tcall.tool = "WriteQueryResultToFile"
           /\ tcall.input \in SelectInputs
           /\ tcall'.tool = "ReadFile"
           /\ tcall'.input = <<FileName>>) =>
              /\ tresult'.value = db_result.content
              /\ WrittenAndReported(tcall.input[3], tresult.value, db_result)]_vars

\* C17, amended: the same, provided the file operations do not fail.  When
\* the directory or the file cannot be written the tool returns 'Failed to
\* write query result: ...' and leaves the file as it was or empty; when the
\* file cannot be read ReadFile returns 'Error reading file: ...'.
C17_WriteThenReadUnlessIOFails ==
    [][/\ (tcall'.tool = "WriteQueryResultToFile" /\ tcall'.input \in SelectInputs) =>
              IF WriteOk(tresult'.value)
              THEN WrittenAndReported(tcall'.input[3], tresult'.value, db_result')
              ELSE /\ tresult'.value[1] = "Failed to write query result:"
                   /\ db_result' \in {db_result, FileOf(<<>>)}
       /\ (/\ tcall.tool = "WriteQueryResultToFile"
           /\ tcall.input \in SelectInputs
           /\ WriteOk(tresult.value)
           /\ tcall'.tool = "ReadFile"
           /\ tcall'.input = <<FileName>>) =>
              /\ ~ReadFailed(tresult'.value) => tresult'.value = db_result.content
              /\ WrittenAndReported(tcall.input[3], tresult.value, db_result)
              /\ db_result' = db_result]_vars

\* the count was written over the old content of db_result.txt and read back
C17_Witness ==
    /\ tcall.tool = "ReadFile"
    /\ tcall.input = <<FileName>>
    /\ tcall.before = FileOf(<<"The number of users is:", SP, "4">>)
    /\ tresult.value = <<"The number of users is:", SP, "4">>

\* the input holds no 'SQL:' marker followed by a SELECT: the tool answers
\* with its error string and the file is as it was before the call
RefusedUnwritten(v, before, file) ==
    /\ v = <<"Error: Input to WriteQueryResultToFile must start with 'SQL:' followed by the query.">>
    /\ file = before

\* the file holds the sentence with the reported result and nothing else; for
\* the query that the engine rejects both carry the SQL error string
OverwrittenWithResult(query, v, file) ==
    /\ WriteOk(v)
    /\ file = FileOf(<<"The number of users is:", SP>> \o ReportedResult(v))
    /\ query = BadSelect =>
          /\ ReportedResult(v)[1] = "SQL execution error:"
          /\ file.content[3] = "SQL execution error:"

\* C26, as claimed: WriteQueryResultToFile leaves db_result.txt as it was
\* exactly when its input holds no 'SQL:' marker followed by a SELECT, and
\* then returns an error string; whenever the marker is there it overwrites
\* the file and returns the 'successfully written' observation, also when the
\* query failed, and then file and observation carry the SQL error string.
C26_WriteFrame ==
    (script \in {"2_sql_agent", "exercise_b"} /\ tcall.tool = "WriteQueryResultToFile") =>
        IF tcall.input \in SelectInputs
        THEN OverwrittenWithResult(tcall.input[3], tresult.value, db_result)
        ELSE RefusedUnwritten(tresult.value, tcall.before, db_result)

\* C26, amended: the same, provided the directory and the file can be
\* written.  When they cannot, an input with the marker gets 'Failed to write
\* query result: ...' and the file is left as it was or empty.
C26_WriteFrameUnlessIOFails ==
    (script \in {"2_sql_agent", "exercise_b"} /\ tcall.tool = "WriteQueryResultToFile") =>
        IF tcall.input \in SelectInputs
        THEN IF WriteOk(tresult.value)
             THEN OverwrittenWithResult(tcall.input[3], tresult.value, db_result)
             ELSE /\ tresult.value[1] = "Failed to write query result:"
                  /\ db_result \in {tcall.before, FileOf(<<>>)}
        ELSE RefusedUnwritten(tresult.value, tcall.before, db_result)

\* the result of a rejected query was written over the old content, and an
\* input without the marker is among the inputs
C26_Witness ==
    /\ script = "exercise_b"
    /\ tcall.tool = "WriteQueryResultToFile"
    /\ tcall.input = <<"SQL:", SP, BadSelect>>
    /\ tcall.before = FileOf(<<"old">>)
    /\ WriteOk(tresult.value)
    /\ Contains(db_result.content, "SQL execution error:")
    /\ ~Contains(db_result.content, "old")

\* the query of the call succeeded and its result is what the file holds
QueryAndWriteSucceeded ==
    /\ ~tcall.reply.raised
    /\ query_result.exists
    /\ query_result.content # <<>>
    /\ query_result.content[1] = "This is the result of the query:"

\* C27: in exercise_2.py a call of WriteQueryResultToFile whose query and
\* write succeed ends the process with sys.exit inside the tool: no
\* observation is returned for it, and nothing happens afterwards, so no
\* final answer is produced.  Only a call that fails returns a string, the
\* 'Failed to write query result: ...' one, and the process goes on.
C27_SuccessfulWriteExits ==
    [][/\ (script = "exercise_2" /\ tcall'.tool = "WriteQueryResultToFile") =>
              IF QueryAndWriteSucceeded'
              THEN /\ spc' = "exit"
                   /\ exit_status'.code = 0
                   /\ tresult' = NoResult
              ELSE /\ spc' = "run"
                   /\ exit_status' = Running
                   /\ ~tresult'.raised
                   /\ tresult'.value[1] = "Failed to write query result:"
                   /\ query_result' \in {tcall'.before, FileOf(<<>>)}
       /\ (script = "exercise_2" /\ spc = "exit") => UNCHANGED vars]_vars

\* the count was written over the old file and the process ended there, and
\* a call whose query was rejected returned its string
C27_Witness ==
    /\ script = "exercise_2"
    /\ tcall.tool = "WriteQueryResultToFile"
    /\ tcall.input = <<CountUsers>>
    /\ tcall.before = FileOf(<<"old">>)
    /\ Contains(query_result.content, "4")
    /\ spc = "exit"
    /\ exit_status.code = 0
    /\ tresult = NoResult

\* C18: ReadFile called with a name for which no file exists returns a string
\* that holds the name and says that the file does not exist; it does not
\* raise and it creates no file.
C18_ReadMissingFile ==
    (tcall.tool = "ReadFile" /\ ~(tcall.input = <<FileName>> /\ tcall.before.exists)) =>
        /\ ~tresult.raised
        /\ \A i \in 1..Len(tcall.input) : Contains(tresult.value, tcall.input[i])
        /\ Contains(tresult.value, "does not exist at")
        /\ db_result = tcall.before

\* ReadFile was called for db_result.txt before anything wrote it
C18_Witness ==
    /\ tcall.tool = "ReadFile"
    /\ tcall.input = <<FileName>>
    /\ ~tcall.before.exists
    /\ ~db_result.exists
    /\ Contains(tresult.value, FileName)

\* exact arithmetic on fractions n/d; d = 0 marks a value that does not exist
Frac(n, d) == [n |-> n, d |-> d]
FracOf(t) ==
    IF t \in IntTokens THEN Frac(IntOf(t), 1)
    ELSE CASE t = "0.1" -> Frac(1, 10)
           [] t = "0.2" -> Frac(2, 10)
           [] t = "0.5" -> Frac(5, 10)
FracBin(op, p, q) ==
    IF p.d = 0 \/ q.d = 0 THEN Frac(0, 0)
    ELSE CASE op = "+" -> Frac(p.n * q.d + q.n * p.d, p.d * q.d)
           [] op = "-" -> Frac(p.n * q.d - q.n * p.d, p.d * q.d)
           [] op = "*" -> Frac(p.n * q.n, p.d * q.d)
           [] op = "/" -> Frac(p.n * q.d, p.d * q.n)

\* the arithmetic value of the expression of a shape, by the rules of
\* precedence: the parentheses first, * and / before + and -, left to right
ExactValue(sh) ==
    LET a == FracOf(sh.a)
        b == FracOf(sh.b)
        c == FracOf(sh.c)
    IN  IF sh.op2 = NoC THEN FracBin(sh.op1, a, b)
        ELSE IF sh.paren = "right"
                \/ (sh.paren = "none" /\ sh.op1 \in {"+", "-"} /\ sh.op2 \in {"*", "/"})
        THEN FracBin(sh.op1, a, FracBin(sh.op2, b, c))
        ELSE FracBin(sh.op2, FracBin(sh.op1, a, b), c)

\* the decimal strings of a fraction: of a whole number with or without
\* ".0", of a positive number of tenths with one decimal; none for a
\* fraction that has no such expansion
DecimalStrings(r) ==
    IF r.d = 0 THEN {}
    ELSE IF r.n % r.d = 0
    THEN {ToString(r.n \div r.d), ToString(r.n \div r.d) \o ".0"}
    ELSE IF r.n > 0 /\ r.d > 0 /\ (10 * r.n) % r.d = 0
    THEN {ToString(r.n \div r.d) \o "." \o ToString(((10 * r.n) \div r.d) % 10)}
    ELSE {}

\* the expression of the shape is made of whole numbers, + - * and parentheses
IntegerShape(sh) ==
    /\ {sh.a, sh.b} \subseteq IntTokens
    /\ sh.op1 # "/"
    /\ sh.op2 # NoC => sh.c \in IntTokens /\ sh.op2 # "/"

\* what calculate does with text that is no expression or has no value
C19_Failures ==
    tcall.tool = "calculate" =>
        /\ ~tresult.raised
        /\ tcall.reply.tail = "x" =>
              /\ tresult.value = <<"Invalid characters in expression">>
              /\ ~tresult.evaluated
        /\ (tcall.reply.tail = "+" \/ (tcall.reply.tail = NoC /\ ExactValue(tcall.reply).d = 0)) =>
              /\ tresult.value[1] = "Calculation error:"
              /\ tresult.evaluated

\* C19, as claimed: calculate returns the decimal string of the arithmetic
\* value of the expression ('128' for '15 * 7 + 23'); on a character outside
\* the digits, + - * / . ( ) and the space it returns 'Invalid characters in
\* expression' and evaluates nothing; it never raises and returns a
\* 'Calculation error' string when the evaluation fails.
C19_DecimalOfArithmeticValue ==
    /\ C19_Failures
    /\ (tcall.tool = "calculate" /\ tcall.reply.tail = NoC
        /\ ExactValue(tcall.reply).d # 0) =>
           /\ Len(tresult.value) = 1
           /\ tresult.value[1] \in DecimalStrings(ExactValue(tcall.reply))

\* C19, amended: calculate returns str() of what Python's eval computes: the
\* decimal string of the exact value for an expression of whole numbers with
\* + - * and parentheses ('128' for '15 * 7 + 23'), and the repr of a binary
\* floating point number once the expression divides or holds a decimal
\* ('2.0' for '6 / 3', '0.30000000000000004' for '0.1 + 0.2').  The rest is
\* as claimed.
C19_StrOfEval ==
    /\ C19_Failures
    /\ (tcall.tool = "calculate" /\ tcall.reply.tail = NoC
        /\ ExactValue(tcall.reply).d # 0) =>
           /\ Len(tresult.value) = 1
           /\ tresult.evaluated
           /\ IntegerShape(tcall.reply) =>
                 tresult.value[1] = ToString(ExactValue(tcall.reply).n)
           /\ tcall.input = <<"6", SP, "/", SP, "3">> => tresult.value = <<"2.0">>
           /\ tcall.input = <<"0.1", SP, "+", SP, "0.2">> =>
                 tresult.value = <<"0.30000000000000004">>

\* calculate was called with '15 * 7 + 23' and returned '128'
C19_Witness ==
    /\ tcall.tool = "calculate"
    /\ tcall.input = <<"15", SP, "*", SP, "7", SP, "+", SP, "23">>
    /\ tresult.value = <<"128">>

\* the first builder, in the order of Builders, that does not raise; 0 when
\* all of them raise
FirstSuccess ==
    IF \E i \in 1..Len(Builders) : Builders[i] \in builds
    THEN CHOOSE i \in 1..Len(Builders) :
            /\ Builders[i] \in builds
            /\ \A j \in 1..(i - 1) : Builders[j] \notin builds
    ELSE 0

\* C20: create_agent_with_fallback tries the builders in the order
\* tool-calling, ReAct, legacy; it returns the executor of the first builder
\* that succeeds and tries no builder after it; it returns None only when all
\* three have failed; it always returns.
C20_FirstBuilderWins ==
    (script \in FallbackScripts /\ spc \notin {"start", "exit", "create"}) =>
        /\ spc \in {"run", "direct"}
        /\ Len(attempts) \in 1..Len(Builders)
        /\ \A i \in 1..Len(attempts) : attempts[i] = Builders[i]
        /\ \A i \in 1..(Len(attempts) - 1) : attempts[i] \notin builds
        /\ IF FirstSuccess = 0
           THEN agent_executor = "None" /\ Len(attempts) = Len(Builders)
           ELSE agent_executor = Builders[FirstSuccess] /\ Len(attempts) = FirstSuccess
        /\ agent_executor = "None" <=> spc = "direct"

\* the tool-calling builder failed and the ReAct builder succeeded, while the
\* legacy builder would have succeeded as well
C20_Witness ==
    /\ script \in FallbackScripts
    /\ spc = "run"
    /\ builds = {"react", "legacy"}
    /\ attempts = <<"tool_calling", "react">>
    /\ agent_executor = "react"

====
